---- MODULE Spec2Model ----
(***************************************************************************)
(* psi::err : result_or_error<Result, Error> and fallible_result<Result,   *)
(* Error> (general union, 'compressed' and void representations), the      *)
(* exception translation hook and the debug-only fallible_result           *)
(* sanitizer, on one thread.                                               *)
(*                                                                         *)
(* An object is a record; a thread is the bag of its live objects, its     *)
(* std::uncaught_exceptions() count and its sanitizer singleton.  Every    *)
(* member function is an operator that returns the SET of its possible     *)
(* outcomes (more than one where the C++ leaves the result unspecified: a  *)
(* moved-from payload, a broken BOOST_ASSUME in an NDEBUG build, a read    *)
(* through a dangling reference), and every action applies one member      *)
(* function to one live object and records what the caller observes in     *)
(* 'last', until the call returns.                                         *)
(***************************************************************************)
EXTENDS Integers, FiniteSets, Sequences, Bags, TLC

\* ---------------------------------------------------------------- bounds
MaxObjs     == 2   \* objects alive at the same time on the thread
MaxUncaught == 2   \* exceptions in flight at the same time (nested unwinding)
MaxVal      == 2   \* distinct non-empty payload values

Values == 1 .. MaxVal
\* the empty payload: a default-constructed / moved-from Result or Error; the
\* only value of a Result of the compressed representation that converts to
\* false
Empty  == 0
Payloads == {Empty} \cup Values
NoExc  == Empty - 1   \* no exception: not a payload

VARIABLES
    ndebug,    \* TRUE: the build defines NDEBUG (assertions compiled out)
    variant,   \* the representation of the instantiation <Result, Error> in use
    objs,      \* the bag of the thread's live objects (records)
    uncaught,  \* std::uncaught_exceptions() of the thread
    singleton, \* detail::fallible_result_sanitizer::singleton (debug builds)
    trap,      \* "none", or how the program stopped
    last,      \* what the last operation did, as its caller observed it
    inspected_seen, \* history (debug builds): a fallible_result destroyed since
               \* no fallible_result was alive was inspected at its destruction
    reported,  \* history: a destructor of a holder of the followed failure threw
               \* (chain: the holder was or had been a head; off: it was not)
    tls,       \* the sanitizer cells of a program of two threads (record)
    en         \* errno of the thread and its last_errno objects (record)

vars == <<ndebug, variant, objs, uncaught, singleton, trap, last, inspected_seen,
          reported, tls, en>>

\* an object: its data members (succ: succeeded_, val: result_ / error_,
\* inspected: inspected_, moved_from: moved_from_) and, as bookkeeping, its
\* origin: the success value it holds by construction or assignment, carried
\* along by moves (NoExc: constructed from an error, or emptied by a move), and
\* its role among the holders of a failure that is followed through its moves:
\* "head" (the object constructed from the error, or the one a move from the
\* head made), "spent" (a head that was moved from), "off" (made by a move from
\* an object that had been moved from before), "none" (not followed)
NoObj ==
    [ live |-> FALSE, kind |-> "none", rep |-> "none", succ |-> FALSE,
      val |-> Empty, inspected |-> FALSE, moved_from |-> FALSE,
      origin |-> NoExc, role |-> "none" ]

\* ------------------------------------------------ exceptions.hpp
\* make_exception: the default hook is the identity
make_exception(error) == error

\* an outcome of a member function of object o: the object afterwards, whether
\* the call left by an exception (and which), whether the program stopped
\* ("assert": a failed BOOST_ASSERT/BOOST_ASSUME of a debug build, "ub": undefined
\* behaviour that crashed), whether it went through undefined behaviour and
\* went on, and the value returned
Normal(o) ==
    [ o |-> o, threw |-> FALSE, exc |-> NoExc, trap |-> "none", ub |-> FALSE,
      retb |-> FALSE, retv |-> Empty ]
Thrown(o, e)  == [ Normal(o) EXCEPT !.threw = TRUE, !.exc = e ]
Trapped(o, t) == [ Normal(o) EXCEPT !.trap = t ]
ReturnsB(o, b) == [ Normal(o) EXCEPT !.retb = b ]
ReturnsV(o, v) == [ Normal(o) EXCEPT !.retv = v ]
Undefined(out) == [ out EXCEPT !.ub = TRUE ]

\* make_and_throw_exception( error ): throw_exception( make_exception( error ) )
make_and_throw_exception(o, error) == Thrown(o, make_exception(error))

\* detail::conditional_throw: throws only when no exception is in flight
conditional_throw(o, error, unc) ==
    IF unc = 0 THEN make_and_throw_exception(o, error) ELSE Normal(o)

\* BOOST_ASSERT / BOOST_ASSERT_MSG: checked in a debug build only
AssertFails(cond, nd) == ~nd /\ ~cond

\* a payload after std::move( payload ) was used to construct another one:
\* valid but unspecified (unchanged for a trivially movable type, empty for a
\* handle-like one)
MovedFromValues(v) == {v, Empty}

\* the origin of a moved-from object whose payload is now m
MovedFromOrigin(other, m) == IF m = other.val THEN other.origin ELSE NoExc

\* ------------------------------------------------ result_or_error
RoeObj(rep, succ, val) ==
    [ live |-> TRUE, kind |-> "roe", rep |-> rep, succ |-> succ, val |-> val,
      inspected |-> FALSE, moved_from |-> FALSE, origin |-> NoExc,
      role |-> "none" ]

\* result_or_error( Source && result ) / result_or_error( Source && error )
general_construct(ok, v) ==
    [ RoeObj("general", ok, v) EXCEPT !.origin = IF ok THEN v ELSE NoExc ]
\* compressed: result_{ source }, no succeeded_ member
compressed_construct(v)  ==
    [ RoeObj("compressed", FALSE, v) EXCEPT !.origin = IF v # Empty THEN v ELSE NoExc ]
\* a void constructor that takes every source for no_err
void_construct_no_err(ok, v) == RoeObj("void", TRUE, Empty)

\* void: result_or_error( no_err_t ) / result_or_error( Source && error )
void_construct(ok, v)    == RoeObj("void", ok, IF ok THEN Empty ELSE v)

\* the discriminant: succeeded_, or static_cast<bool>( result_ ) when compressed
discriminant(o) == IF o.rep = "compressed" THEN o.val # Empty ELSE o.succ

inspected(o) == o.inspected

\* succeeded(): inspected_ = true; return the discriminant
succeeded(o) == ReturnsB([o EXCEPT !.inspected = TRUE], discriminant(o))

\* explicit operator bool(): return succeeded()
operator_bool(o) == succeeded(o)

\* operator==( result, no_err_t ): return result.succeeded()
operator_eq_no_err(result) == succeeded(result)

\* a comparison with an_err that forgets the negation
operator_eq_an_err_unnegated(result) == succeeded(result)

\* operator==( result, an_err_t ): return !result.succeeded()
operator_eq_an_err(result) ==
    LET r == succeeded(result) IN [ r EXCEPT !.retb = ~r.retb ]

\* operator!=( result, no_err_t ): return !result.succeeded()
operator_ne_no_err(result) ==
    LET r == succeeded(result) IN [ r EXCEPT !.retb = ~r.retb ]

\* operator!=( result, an_err_t ): return result.succeeded()
operator_ne_an_err(result) == succeeded(result)

\* ---- throw_error
general_throw_error(o, unc, nd) ==
    LET o1 == IF nd THEN o ELSE succeeded(o).o   \* BOOST_ASSERT( !succeeded() )
    IN  IF AssertFails(~o.succ, nd) THEN {Trapped(o1, "assert")}
        ELSE IF o.succ
        THEN \* NDEBUG: error_ is read while result_ is the live union member
             {Undefined(make_and_throw_exception(o1, e)) : e \in Payloads}
                 \cup {Trapped(o1, "ub")}
        ELSE {make_and_throw_exception([o1 EXCEPT !.val = m], o.val) :
                  m \in MovedFromValues(o.val)}

compressed_throw_error(o, unc, nd) ==
    LET o1 == IF nd THEN o ELSE succeeded(o).o   \* BOOST_ASSERT( !succeeded() )
    IN  IF AssertFails(~discriminant(o), nd) THEN {Trapped(o1, "assert")}
        ELSE {conditional_throw(o1, Empty, unc)}   \* error() is Error()

void_throw_error(o, unc, nd) ==
    LET o1 == IF nd THEN o ELSE succeeded(o).o   \* BOOST_ASSERT( !succeeded() )
    IN  IF AssertFails(~o.succ, nd) \/ AssertFails(unc = 0, nd)
        THEN {Trapped(o1, "assert")}
        ELSE IF o.succ
        THEN \* NDEBUG: error_ was never constructed
             {Undefined(make_and_throw_exception(o1, e)) : e \in Payloads}
                 \cup {Trapped(o1, "ub")}
        ELSE {make_and_throw_exception(o1, o.val)}

throw_error(o, unc, nd) ==
    CASE o.rep = "general"    -> general_throw_error(o, unc, nd)
      [] o.rep = "compressed" -> compressed_throw_error(o, unc, nd)
      [] o.rep = "void"       -> void_throw_error(o, unc, nd)

\* ---- throw_if_error
general_throw_if_error(o, unc, nd) ==
    LET r == succeeded(o)
    IN  IF r.retb THEN {Normal(r.o)} ELSE general_throw_error(r.o, unc, nd)

compressed_throw_if_error(o, unc, nd) ==
    LET r == succeeded(o)
    IN  IF r.retb THEN {Normal(r.o)} ELSE compressed_throw_error(r.o, unc, nd)

void_throw_if_error(o, unc, nd) ==
    IF AssertFails(unc = 0, nd) THEN {Trapped(o, "assert")}
    ELSE LET r == succeeded(o)
         IN  IF r.retb THEN {Normal(r.o)} ELSE void_throw_error(r.o, unc, nd)

throw_if_error(o, unc, nd) ==
    CASE o.rep = "general"    -> general_throw_if_error(o, unc, nd)
      [] o.rep = "compressed" -> compressed_throw_if_error(o, unc, nd)
      [] o.rep = "void"       -> void_throw_if_error(o, unc, nd)

\* ---- throw_if_uninspected_error
\* throw_if_uninspected_error without its inspected() test
general_throw_if_uninspected_error_untested(o, unc, nd) ==
    general_throw_if_error(o, unc, nd)

general_throw_if_uninspected_error(o, unc, nd) ==
    IF ~inspected(o) THEN general_throw_if_error(o, unc, nd) ELSE {Normal(o)}

\* a compressed throw_if_uninspected_error with the test inverted
compressed_throw_if_uninspected_error_inverted(o, unc, nd) ==
    IF inspected(o) THEN compressed_throw_if_error(o, unc, nd) ELSE {Normal(o)}

compressed_throw_if_uninspected_error(o, unc, nd) ==
    IF ~inspected(o) THEN compressed_throw_if_error(o, unc, nd) ELSE {Normal(o)}

void_throw_if_uninspected_error(o, unc, nd) ==
    IF ~inspected(o) THEN void_throw_if_error(o, unc, nd) ELSE {Normal(o)}

throw_if_uninspected_error(o, unc, nd) ==
    CASE o.rep = "general"    -> general_throw_if_uninspected_error(o, unc, nd)
      [] o.rep = "compressed" -> compressed_throw_if_uninspected_error(o, unc, nd)
      [] o.rep = "void"       -> void_throw_if_uninspected_error(o, unc, nd)

\* ---- accessors
\* a result() that does not assert inspected()
general_result_uninspected(o, nd) ==
    IF AssertFails(o.succ, nd) THEN {Trapped(o, "assert")}
    ELSE IF o.succ THEN {ReturnsV(o, o.val)}
    ELSE {Undefined(ReturnsV(o, v)) : v \in Payloads} \cup {Trapped(o, "ub")}

\* general result(): BOOST_ASSERT_MSG( inspected() ), BOOST_ASSERT_MSG( succeeded_ )
general_result(o, nd) ==
    IF AssertFails(inspected(o) /\ o.succ, nd) THEN {Trapped(o, "assert")}
    ELSE IF o.succ THEN {ReturnsV(o, o.val)}
    ELSE \* NDEBUG: result_ is read while error_ is the live union member
         {Undefined(ReturnsV(o, v)) : v \in Payloads} \cup {Trapped(o, "ub")}

\* compressed result(): BOOST_ASSERT_MSG( inspected() && *this ); return result_
compressed_result(o, nd) ==
    IF AssertFails(inspected(o) /\ discriminant(o), nd) THEN {Trapped(o, "assert")}
    ELSE {ReturnsV(o, o.val)}

\* general error(): BOOST_ASSERT_MSG( inspected() ), BOOST_ASSERT_MSG( !succeeded_ )
general_error(o, nd) ==
    IF AssertFails(inspected(o) /\ ~o.succ, nd) THEN {Trapped(o, "assert")}
    ELSE IF ~o.succ THEN {ReturnsV(o, o.val)}
    ELSE {Undefined(ReturnsV(o, v)) : v \in Payloads} \cup {Trapped(o, "ub")}

\* compressed error(): BOOST_ASSERT_MSG( inspected() && !*this ); return Error()
compressed_error(o, nd) ==
    IF AssertFails(inspected(o) /\ ~discriminant(o), nd) THEN {Trapped(o, "assert")}
    ELSE {ReturnsV(o, Empty)}

\* result() = v: the caller assigns through the Result & that result() returned;
\* the object holds v from now on (no success value when the compressed
\* representation is given the empty one)
assign_result(o, v) ==
    [ o EXCEPT !.val = v,
               !.origin = IF o.rep = "compressed" /\ v = Empty THEN NoExc ELSE v ]

\* an error() that evaluates !*this whatever inspected() says
void_error_inspecting(o, nd) ==
    LET o1 == succeeded(o).o
    IN  IF AssertFails(inspected(o) /\ ~o.succ, nd) THEN {Trapped(o1, "assert")}
        ELSE IF ~o.succ THEN {ReturnsV(o1, o.val)}
        ELSE {Undefined(ReturnsV(o1, v)) : v \in Payloads} \cup {Trapped(o1, "ub")}

\* void error(): BOOST_ASSERT_MSG( inspected() && !*this ); return error_
void_error(o, nd) ==
    IF AssertFails(inspected(o) /\ ~o.succ, nd) THEN {Trapped(o, "assert")}
    ELSE IF ~o.succ THEN {ReturnsV(o, o.val)}
    ELSE {Undefined(ReturnsV(o, v)) : v \in Payloads} \cup {Trapped(o, "ub")}

\* assume_succeeded(): BOOST_ASSUME( succeeded() ); return std::move( result() )
\* (a debug build asserts the expression, so succeeded() runs; an NDEBUG build
\* assumes it, and whether succeeded() runs is up to the compiler's intrinsic)
assume_succeeded(o, nd) ==
    UNION { IF ~discriminant(o)
            THEN IF nd THEN {Trapped(o1, "ub")} \cup
                            {Undefined(ReturnsV(o1, v)) : v \in Payloads}
                       ELSE {Trapped(o1, "assert")}
            ELSE IF o.rep = "void" THEN {Normal(o1)}
            ELSE IF o.rep = "compressed" THEN compressed_result(o1, nd)
            ELSE general_result(o1, nd)
          : o1 \in (IF nd THEN {o, succeeded(o).o} ELSE {succeeded(o).o}) }

\* make_exception_ptr(): BOOST_ASSERT( !succeeded() ),
\* BOOST_ASSERT( !std::uncaught_exceptions() ); the exception is made, not thrown
make_exception_ptr(o, unc, nd) ==
    LET o1 == IF nd THEN o ELSE succeeded(o).o
    IN  IF AssertFails(~discriminant(o), nd) \/ AssertFails(unc = 0, nd)
        THEN {Trapped(o1, "assert")}
        ELSE IF o.rep = "compressed" THEN {ReturnsV(o1, make_exception(Empty))}
        ELSE IF o.succ
        THEN {Undefined(ReturnsV(o1, v)) : v \in Payloads} \cup {Trapped(o1, "ub")}
        ELSE IF o.rep = "void" THEN {ReturnsV(o1, make_exception(o.val))}
        ELSE {ReturnsV([o1 EXCEPT !.val = m], make_exception(o.val)) :
                  m \in MovedFromValues(o.val)}

\* a move constructor that copies the discriminant without other.succeeded(),
\* so that the source stays as uninspected as it was
general_move_unmarked(other) ==
    { [ src |-> [other EXCEPT !.val = m, !.origin = MovedFromOrigin(other, m)],
        dst |-> [ RoeObj("general", other.succ, other.val)
                  EXCEPT !.origin = other.origin ] ] :
      m \in MovedFromValues(other.val) }

\* ---- move constructors: the set of (moved-from source, new object) pairs
general_move(other) ==
    LET r == succeeded(other)           \* succeeded_( other.succeeded() )
    IN  { [ src |-> [r.o EXCEPT !.val = m, !.origin = MovedFromOrigin(other, m)],
            dst |-> [ RoeObj("general", r.retb, other.val)
                      EXCEPT !.origin = other.origin ] ] :
          m \in MovedFromValues(other.val) }

compressed_move(other) ==
    { [ src |-> [other EXCEPT !.val = m, !.inspected = TRUE,
                              !.origin = MovedFromOrigin(other, m)],
        dst |-> [ RoeObj("compressed", FALSE, other.val)
                  EXCEPT !.origin = other.origin ] ] :
      m \in MovedFromValues(other.val) }

void_move(other) ==
    LET r == succeeded(other)           \* succeeded_( other.succeeded() )
    IN  IF r.retb
        THEN { [ src |-> r.o, dst |-> RoeObj("void", TRUE, Empty) ] }
        ELSE { [ src |-> [r.o EXCEPT !.val = m],
                 dst |-> RoeObj("void", FALSE, other.val) ] :
               m \in MovedFromValues(other.val) }

roe_move(other) ==
    CASE other.rep = "general"    -> general_move(other)
      [] other.rep = "compressed" -> compressed_move(other)
      [] other.rep = "void"       -> void_move(other)

\* a destructor that enforces inspection itself (the disabled "Ignored error
\* return code" check turned into a throw)
general_destructor_enforcing(o) == general_throw_if_uninspected_error(o, 0, TRUE)

\* ---- destructors: the live payload is destroyed, nothing is thrown
general_destructor(o)    == {Normal(o)}
compressed_destructor(o) == {Normal(o)}
void_destructor(o)       == {Normal(o)}

roe_destructor(o) ==
    CASE o.rep = "general"    -> general_destructor(o)
      [] o.rep = "compressed" -> compressed_destructor(o)
      [] o.rep = "void"       -> void_destructor(o)

\* ------------------------------------------------ fallible_result_sanitizer
NoSanitizer ==
    [ live_instance_counter |-> 0, at_least_one_inspected |-> FALSE,
      live_void_instance_counter |-> 0 ]

Uint8(n) == n % 256

\* add_instance_aux: ++live_instance_counter
add_instance_aux(s) ==
    [ s EXCEPT !.live_instance_counter = Uint8(@ + 1) ]

\* a remove_instance_aux that keeps the flag when the count returns to 0
remove_instance_aux_sticky(s, insp, unc) ==
    LET flag == s.at_least_one_inspected \/ insp
        live == Uint8(s.live_instance_counter - 1)
    IN  [ s |-> [ s EXCEPT !.live_instance_counter  = live,
                           !.at_least_one_inspected = flag ],
          fails |-> \/ ~(s.live_instance_counter > 0)
                    \/ ~(flag \/ live # 0 \/ unc # 0) ]

\* a remove_instance_aux that looks at the instance being destroyed only
remove_instance_aux_forgetful(s, insp, unc) ==
    LET live == Uint8(s.live_instance_counter - 1)
    IN  [ s |-> [ s EXCEPT !.live_instance_counter  = live,
                           !.at_least_one_inspected = insp /\ (live # 0) ],
          fails |-> \/ ~(s.live_instance_counter > 0)
                    \/ ~(insp \/ live # 0 \/ unc # 0) ]

\* remove_instance_aux( inspected ): the sanitizer afterwards and whether one of
\* its two assertions failed
remove_instance_aux(s, insp, unc) ==
    LET flag == s.at_least_one_inspected \/ insp
        live == Uint8(s.live_instance_counter - 1)
    IN  [ s |-> [ s EXCEPT !.live_instance_counter  = live,
                           !.at_least_one_inspected = flag /\ (live # 0) ],
          fails |-> \/ ~(s.live_instance_counter > 0)
                    \/ ~(flag \/ live # 0 \/ unc # 0) ]

\* ------------------------------------------------ fallible_result
FrObj(roe) == [ roe EXCEPT !.kind = "fallible" ]

\* BOOST_ASSUME( cond ): an assertion in a debug build, undefined behaviour in
\* an NDEBUG build when cond is false
AssumeBroken(cond) == ~cond

\* an ignore_failure() that does not record the inspection
ignore_failure_unrecorded(o) == o

\* ignore_failure(): result_or_error_.inspected_ = true
ignore_failure(o) == [ o EXCEPT !.inspected = TRUE ]

\* void ignore_failure(): std::move( *this ).succeeded()
void_ignore_failure(o) == succeeded(o).o

\* a bool conversion that reads the discriminant without recording the inspection
fr_operator_bool_unrecorded(o) == ReturnsB(o, discriminant(o))

\* explicit operator bool(): static_cast<bool>( result_or_error_ )
fr_operator_bool(o) == succeeded(o)

\* result(): result_or_error_.throw_if_error(); return result_
fr_result(o, unc, nd) ==
    { IF out.threw \/ out.trap # "none" THEN out
      ELSE [ out EXCEPT !.retv = out.o.val ]
    : out \in throw_if_error(o, unc, nd) }

\* as_result_or_error(): BOOST_ASSUME( !inspected_ ); ignore_failure();
\* return std::move( result_or_error_ ): the set of (wrapper afterwards,
\* result_or_error returned, trap, ub)
as_result_or_error(o, nd) ==
    LET broken == AssumeBroken(~o.inspected)
        moves  == roe_move(ignore_failure(o))
        go     == { [ src |-> m.src, dst |-> m.dst, trap |-> "none", ub |-> broken ] :
                    m \in moves }
    IN  IF ~broken THEN go
        ELSE IF ~nd THEN { [ src |-> o, dst |-> NoObj, trap |-> "assert", ub |-> FALSE ] }
        ELSE go \cup { [ src |-> o, dst |-> NoObj, trap |-> "ub", ub |-> TRUE ] }

\* an object read through a dangling reference: any content
Garbage(rep) ==
    { [ RoeObj(rep, s, v) EXCEPT !.inspected = i ] :
      s \in (IF rep = "compressed" THEN {FALSE} ELSE BOOLEAN),
      v \in Payloads, i \in BOOLEAN }

\* operator result_or_error<Result, Error> &&() &&:
\* return std::move( *this ).as_result_or_error() binds the returned reference
\* to the temporary that as_result_or_error() returns by value; the temporary
\* is destroyed when the operator returns
operator_result_or_error_ref(o, nd) ==
    UNION { IF r.trap # "none" THEN {r}
            ELSE { [ r EXCEPT !.dst = [ g EXCEPT !.origin = r.dst.origin ],
                              !.ub = TRUE ] : g \in Garbage(o.rep) }
                 \cup { [ r EXCEPT !.dst = NoObj, !.trap = "ub", !.ub = TRUE ] }
          : r \in as_result_or_error(o, nd) }

\* void operator result() &&: return std::move( void_or_error_ )
void_operator_result(o, nd) ==
    { [ src |-> m.src, dst |-> m.dst, trap |-> "none", ub |-> FALSE ] :
      m \in void_move(o) }

\* fallible_result( fallible_result && other ):
\* result_or_error_( std::move( std::move( other ).as_result_or_error() ) );
\* the temporary returned by as_result_or_error() is moved from and destroyed
fr_move(o, nd) ==
    UNION { IF r.trap # "none" THEN {r}
            ELSE { [ r EXCEPT !.dst = FrObj(m.dst) ] : m \in roe_move(r.dst) }
          : r \in as_result_or_error(o, nd) }

\* fallible_result<void, Error>( fallible_result && other ):
\* void_or_error_( std::move( other ).operator result() ); a debug build asserts
\* !other.moved_from_ and sets it
void_fr_move(o, nd) ==
    { IF AssertFails(~o.moved_from, nd)
      THEN [ r EXCEPT !.trap = "assert" ]
      ELSE [ r EXCEPT !.dst = FrObj(r.dst),
                      !.src = [ r.src EXCEPT !.moved_from = ~nd ] ]
    : r \in void_operator_result(o, nd) }

\* a constructor whose void specialisation counts the instance without looking
\* at the count
fr_construct_uncounted(roe, s, nd) ==
    IF nd THEN [ o |-> FrObj(roe), s |-> s, fails |-> FALSE ]
    ELSE IF roe.rep = "void"
    THEN [ o |-> FrObj(roe),
           s |-> [ s EXCEPT !.live_void_instance_counter = Uint8(@ + 1) ],
           fails |-> FALSE ]
    ELSE [ o |-> FrObj(roe), s |-> add_instance_aux(s), fails |-> FALSE ]

\* fallible_result( T && ... argument ): result_or_error_( argument... ); a debug
\* build counts the instance (general template) or asserts that no other
\* fallible_result<void> is alive (void specialisation)
fr_construct(roe, s, nd) ==
    IF nd THEN [ o |-> FrObj(roe), s |-> s, fails |-> FALSE ]
    ELSE IF roe.rep = "void"
    THEN [ o |-> FrObj(roe),
           s |-> [ s EXCEPT !.live_void_instance_counter = Uint8(@ + 1) ],
           fails |-> s.live_void_instance_counter # 0 ]
    ELSE [ o |-> FrObj(roe), s |-> add_instance_aux(s), fails |-> FALSE ]

\* ~fallible_result(): remove_instance( inspected_ ) in a debug build, then
\* result_or_error_.throw_if_uninspected_error(): the set of (outcome, sanitizer)
fr_destructor(o, s, unc, nd) ==
    LET r == IF nd THEN [ s |-> s, fails |-> FALSE ]
                   ELSE remove_instance_aux(s, o.inspected, unc)
    IN  IF r.fails THEN { [ out |-> Trapped(o, "assert"), s |-> r.s ] }
        ELSE { [ out |-> x, s |-> r.s ] :
               x \in throw_if_uninspected_error(o, unc, nd) }

\* ~fallible_result<void, Error>(): a debug build asserts
\* live_void_instance_counter-- == 1 + moved_from_
void_fr_destructor(o, s, unc, nd) ==
    LET s1 == IF nd THEN s
              ELSE [ s EXCEPT !.live_void_instance_counter = Uint8(@ - 1) ]
        ok == s.live_void_instance_counter = 1 + (IF o.moved_from THEN 1 ELSE 0)
    IN  IF AssertFails(ok, nd) THEN { [ out |-> Trapped(o, "assert"), s |-> s1 ] }
        ELSE { [ out |-> x, s |-> s1 ] :
               x \in void_throw_if_uninspected_error(o, unc, nd) }

\* ------------------------------------------------ the thread
\* general union, compressed_result_error_variant, result_or_error<void, Error>
Reps == {"general", "compressed", "void"}

\* no constructor argument
NoArg == <<FALSE, NoExc>>

NotReported == [ chain |-> FALSE, off |-> FALSE ]

NoLast ==
    [ op |-> "none", pre |-> NoObj, post |-> NoObj, made |-> NoObj, unc |-> 0,
      unwind |-> FALSE, threw |-> FALSE, exc |-> NoExc, retb |-> FALSE,
      retv |-> Empty, ub |-> FALSE, arg |-> NoArg, san |-> NoSanitizer,
      seen |-> FALSE, reported |-> NotReported ]

\* a program that uses no last_errno
NoErrno == [ stateful |-> TRUE ]

\* a program of one thread: no second thread, no cells of other threads
NoTls == [ impl |-> "thread_local" ]

Init ==
    /\ ndebug \in BOOLEAN
    /\ variant \in Reps
    /\ objs = EmptyBag
    /\ uncaught = 0
    /\ singleton = NoSanitizer
    /\ trap = "none"
    /\ last = NoLast
    /\ inspected_seen = FALSE
    /\ reported = NotReported
    /\ tls = NoTls
    /\ en = NoErrno

Live     == BagToSet(objs)
Wrappers == { o \in Live : o.kind = "fallible" }
Roes     == { o \in Live : o.kind = "roe" }
Room     == BagCardinality(objs) < MaxObjs
\* the number of live fallible_result instances
WrapperCount == BagCardinality([ o \in Wrappers |-> CopiesIn(o, objs) ])

\* the thread is between two calls: the program runs and the caller has taken
\* the outcome of the previous call
Idle == trap = "none" /\ last.op = "none"

Put(b, o)  == IF o.live THEN b (+) SetToBag({o}) ELSE b
Take(b, o) == IF o.live THEN b (-) SetToBag({o}) ELSE b

\* One call of a member function of the live object pre (NoObj: a constructor)
\* has the outcome out: the object becomes post (NoObj: it was destroyed), the
\* object the call returned (if any) is made; an exception that leaves a
\* destructor run by stack unwinding ends the program (std::terminate), any
\* other exception is in flight afterwards.
\* the holders of the followed failure that are alive in the bag b
Holders(b) == { o \in BagToSet(b) : o.role # "none" }

\* the object a call leaves (post) and the object it returns (made) with their
\* roles: a move makes the head spent and its result the head
PostRole(pre, post, made) ==
    IF post.live /\ made.live /\ pre.role = "head"
    THEN [ post EXCEPT !.role = "spent" ] ELSE post

MadeRole(pre, made) ==
    IF ~made.live THEN made
    ELSE [ made EXCEPT !.role = CASE pre.role = "head" -> "head"
                                  [] pre.role \in {"spent", "off"} -> "off"
                                  [] OTHER -> "none" ]

CompleteArg(op, arg, pre, unwind, out, post, made, san) ==
    /\ (out.threw /\ out.trap = "none" /\ ~unwind) => uncaught < MaxUncaught
    /\ trap' = IF out.trap # "none" THEN out.trap
               ELSE IF out.threw /\ unwind THEN "terminate" ELSE "none"
    /\ uncaught' = IF out.trap = "none" /\ out.threw /\ ~unwind
                   THEN uncaught + 1 ELSE uncaught
    /\ objs' = Put(Put(Take(objs, pre), PostRole(pre, post, made)),
                   MadeRole(pre, made))
    /\ singleton' = san
    /\ last' = [ op |-> op, pre |-> pre, post |-> post, made |-> made,
                 unc |-> uncaught, unwind |-> unwind, threw |-> out.threw,
                 exc |-> out.exc, retb |-> out.retb, retv |-> out.retv,
                 ub |-> out.ub, arg |-> arg, san |-> singleton,
                 seen |-> IF op = "destroy" /\ pre.kind = "fallible"
                          THEN inspected_seen \/ pre.inspected ELSE FALSE,
                 reported |-> IF pre.role # "none" THEN reported
                              ELSE NotReported ]
    /\ reported' =
         LET throws == op = "destroy" /\ out.threw
         IN  \* forgotten when no holder of the followed failure is left
             IF Holders(objs') = {} THEN NotReported
             ELSE [ chain |-> reported.chain
                                \/ (throws /\ pre.role \in {"head", "spent"}),
                    off   |-> reported.off \/ (throws /\ pre.role = "off") ]
    /\ inspected_seen' =
         IF ~ndebug /\ op = "destroy" /\ pre.kind = "fallible"
         THEN \* forgotten when no fallible_result is left
              (inspected_seen \/ pre.inspected) /\ WrapperCount > 1
         ELSE inspected_seen
    /\ UNCHANGED <<ndebug, variant, tls, en>>

Complete(op, pre, unwind, out, post, made, san) ==
    CompleteArg(op, NoArg, pre, unwind, out, post, made, san)

\* the sources a producer can construct a result from
ConstructArgs(rep) ==
    CASE rep = "general"    -> BOOLEAN \X Values
      [] rep = "compressed" -> {FALSE} \X Payloads
      [] rep = "void"       -> {<<TRUE, Empty>>} \cup ({FALSE} \X Values)

NewRoe(rep, a) ==
    CASE rep = "general"    -> general_construct(a[1], a[2])
      [] rep = "compressed" -> compressed_construct(a[2])
      [] rep = "void"       -> void_construct(a[1], a[2])

\* a result_or_error is constructed from a success or an error value
RoeConstruct ==
    /\ Idle /\ Room
    /\ \E a \in ConstructArgs(variant) :
         CompleteArg("construct", a, NoObj, FALSE, Normal(NoObj),
                     NewRoe(variant, a), NoObj, singleton)

\* a producer returns a fallible_result
FrConstruct ==
    /\ Idle /\ Room
    /\ \E a \in ConstructArgs(variant) :
         LET c == fr_construct(NewRoe(variant, a), singleton, ndebug)
         IN  CompleteArg("construct", a, NoObj, FALSE,
                         IF c.fails THEN Trapped(NoObj, "assert") ELSE Normal(NoObj),
                         c.o, NoObj, c.s)

\* a fallible_result is destroyed, at the end of its full expression or (unwind)
\* by the stack unwinding of an exception in flight
FrDestroy ==
    /\ Idle
    /\ \E o \in Wrappers : \E unwind \in BOOLEAN :
         /\ unwind => uncaught > 0
         /\ \E r \in (IF o.rep = "void"
                      THEN void_fr_destructor(o, singleton, uncaught, ndebug)
                      ELSE fr_destructor(o, singleton, uncaught, ndebug)) :
              Complete("destroy", o, unwind, r.out, NoObj, NoObj, r.s)

\* operator Result &&, operator *, operator ->
FrResult ==
    /\ Idle
    /\ \E o \in Wrappers :
         /\ o.rep # "void"
         /\ \E out \in fr_result(o, uncaught, ndebug) :
              Complete("result", o, FALSE, out, out.o, NoObj, singleton)

DecayOps == {"as_result_or_error", "operator()", "operator result_or_error"}

decay(how, o, nd) ==
    IF o.rep = "void" THEN void_operator_result(o, nd)
    ELSE IF how = "operator result_or_error" THEN operator_result_or_error_ref(o, nd)
    ELSE as_result_or_error(o, nd)

\* the wrapper decays to a result_or_error
FrDecay ==
    /\ Idle /\ Room
    /\ \E o \in Wrappers : \E how \in DecayOps :
         /\ o.rep = "void" => how # "as_result_or_error"
         /\ \E r \in decay(how, o, ndebug) :
              Complete(how, o, FALSE,
                       [ Normal(r.src) EXCEPT !.trap = r.trap, !.ub = r.ub ],
                       r.src, r.dst, singleton)

\* explicit operator bool (and succeeded() of the void specialisation)
FrBool ==
    /\ Idle
    /\ \E o \in Wrappers :
         LET out == fr_operator_bool(o)
         IN  Complete("bool", o, FALSE, out, out.o, NoObj, singleton)

fr_ignore_failure(o) ==
    IF o.rep = "void" THEN void_ignore_failure(o) ELSE ignore_failure(o)

FrIgnoreFailure ==
    /\ Idle
    /\ \E o \in Wrappers :
         Complete("ignore_failure", o, FALSE, Normal(fr_ignore_failure(o)),
                  fr_ignore_failure(o), NoObj, singleton)

\* propagate(): return std::move( *this ), through the private move constructor
\* (which, in a debug build, counts the new instance)
fr_propagate(o, s, nd) ==
    IF o.rep = "void"
    THEN { [ r |-> IF r.trap = "none" /\ AssertFails(s.live_void_instance_counter = 1, nd)
                   THEN [ r EXCEPT !.trap = "assert" ] ELSE r,
             s |-> IF nd \/ r.trap # "none" THEN s
                   ELSE [ s EXCEPT !.live_void_instance_counter = Uint8(@ + 1) ] ] :
           r \in void_fr_move(o, nd) }
    ELSE { [ r |-> r,
             s |-> IF nd \/ r.trap # "none" THEN s ELSE add_instance_aux(s) ] :
           r \in fr_move(o, nd) }

FrPropagate ==
    /\ Idle /\ Room
    /\ \E o \in Wrappers :
         \E p \in fr_propagate(o, singleton, ndebug) :
              Complete("propagate", o, FALSE,
                       [ Normal(p.r.src) EXCEPT !.trap = p.r.trap, !.ub = p.r.ub ],
                       p.r.src, p.r.dst, p.s)

\* ---- operations on a result_or_error
InspectOps == {"succeeded", "operator bool", "== no_err", "== an_err",
               "!= no_err", "!= an_err"}

roe_inspect(op, o) ==
    CASE op = "succeeded"     -> succeeded(o)
      [] op = "operator bool" -> operator_bool(o)
      [] op = "== no_err"     -> operator_eq_no_err(o)
      [] op = "== an_err"     -> operator_eq_an_err(o)
      [] op = "!= no_err"     -> operator_ne_no_err(o)
      [] op = "!= an_err"     -> operator_ne_an_err(o)

\* succeeded(), explicit operator bool and the comparisons with no_err / an_err
RoeInspect ==
    /\ Idle
    /\ \E o \in Roes : \E op \in InspectOps :
         LET out == roe_inspect(op, o)
         IN  Complete(op, o, FALSE, out, out.o, NoObj, singleton)

\* inspected(): reads the flag
RoeInspected ==
    /\ Idle
    /\ \E o \in Roes :
         Complete("inspected", o, FALSE, ReturnsB(o, inspected(o)), o, NoObj,
                  singleton)

AccessOps == {"result", "error", "assume_succeeded"}

roe_access(op, o, nd) ==
    CASE op = "result" ->
           IF o.rep = "compressed" THEN compressed_result(o, nd) ELSE general_result(o, nd)
      [] op = "error" ->
           IF o.rep = "general" THEN general_error(o, nd)
           ELSE IF o.rep = "compressed" THEN compressed_error(o, nd)
           ELSE void_error(o, nd)
      [] op = "assume_succeeded" -> assume_succeeded(o, nd)

RoeAccess ==
    /\ Idle
    /\ \E o \in Roes : \E op \in AccessOps :
         /\ o.rep = "void" => op # "result"
         /\ \E out \in roe_access(op, o, ndebug) :
              Complete(op, o, FALSE, out, out.o, NoObj, singleton)

\* the caller writes a Result through the reference that result() (operator *,
\* operator ->) handed out for an inspected, succeeded object
RoeAssignResult ==
    /\ Idle
    /\ \E o \in Roes : \E v \in Payloads :
         /\ o.rep # "void" /\ inspected(o) /\ discriminant(o)
         /\ v # o.val
         /\ Complete("result =", o, FALSE, Normal(assign_result(o, v)),
                     assign_result(o, v), NoObj, singleton)

ThrowOps == {"throw_if_error", "throw_if_uninspected_error", "throw_error"}

roe_throw(op, o, unc, nd) ==
    CASE op = "throw_if_error"             -> throw_if_error(o, unc, nd)
      [] op = "throw_if_uninspected_error" -> throw_if_uninspected_error(o, unc, nd)
      [] op = "throw_error"                -> throw_error(o, unc, nd)

RoeThrow ==
    /\ Idle
    /\ \E o \in Roes : \E op \in ThrowOps :
         \E out \in roe_throw(op, o, uncaught, ndebug) :
              Complete(op, o, FALSE, out, out.o, NoObj, singleton)

RoeMakeExceptionPtr ==
    /\ Idle
    /\ \E o \in Roes :
         \E out \in make_exception_ptr(o, uncaught, ndebug) :
              Complete("make_exception_ptr", o, FALSE, out, out.o, NoObj, singleton)

\* result_or_error::propagate(): return std::move( *this )
RoePropagate ==
    /\ Idle /\ Room
    /\ \E o \in Roes :
         \E m \in roe_move(o) :
              Complete("propagate", o, FALSE, Normal(m.src), m.src, m.dst, singleton)

\* as_fallible_result(): return { std::move( *this ) }
as_fallible_result(o, s, nd) ==
    { LET c == fr_construct(m.dst, s, nd)
      IN  [ src |-> m.src, dst |-> c.o, s |-> c.s, fails |-> c.fails ]
    : m \in roe_move(o) }

RoeAsFallibleResult ==
    /\ Idle /\ Room
    /\ \E o \in Roes :
         \E r \in as_fallible_result(o, singleton, ndebug) :
              Complete("as_fallible_result", o, FALSE,
                       IF r.fails THEN Trapped(r.src, "assert") ELSE Normal(r.src),
                       r.src, r.dst, r.s)

\* a result_or_error goes out of scope, normally or by stack unwinding
RoeDestroy ==
    /\ Idle
    /\ \E o \in Roes : \E unwind \in BOOLEAN :
         /\ unwind => uncaught > 0
         /\ \E out \in roe_destructor(o) :
              Complete("destroy", o, unwind, out, NoObj, NoObj, singleton)

\* ---- exceptions of the rest of the program
\* other code throws (inside a try block of a destructor when an exception is
\* already in flight)
ThirdPartyThrow ==
    /\ Idle
    /\ uncaught < MaxUncaught
    /\ uncaught' = uncaught + 1
    /\ last' = [ NoLast EXCEPT !.op = "throw", !.unc = uncaught ]
    /\ UNCHANGED <<ndebug, variant, objs, singleton, trap, inspected_seen, reported,
                   tls, en>>

\* a handler is entered: one exception less is in flight
Catch ==
    /\ Idle
    /\ uncaught > 0
    /\ uncaught' = uncaught - 1
    /\ last' = [ NoLast EXCEPT !.op = "catch", !.unc = uncaught ]
    /\ UNCHANGED <<ndebug, variant, objs, singleton, trap, inspected_seen, reported,
                   tls, en>>

\* the call returns to its caller (or its exception leaves it), which goes on;
\* an execution that went through undefined behaviour is not followed further
Return ==
    /\ trap = "none"
    /\ last.op # "none"
    /\ ~last.ub
    /\ last' = NoLast
    /\ UNCHANGED <<ndebug, variant, objs, uncaught, singleton, trap, inspected_seen,
                   reported, tls, en>>

Next ==
    \/ RoeConstruct
    \/ FrConstruct
    \/ FrDestroy
    \/ FrResult
    \/ FrDecay
    \/ FrBool
    \/ FrIgnoreFailure
    \/ FrPropagate
    \/ RoeInspect
    \/ RoeInspected
    \/ RoeAccess
    \/ RoeAssignResult
    \/ RoeThrow
    \/ RoeMakeExceptionPtr
    \/ RoePropagate
    \/ RoeAsFallibleResult
    \/ RoeDestroy
    \/ ThirdPartyThrow
    \/ Catch
    \/ Return

Spec == Init /\ [][Next]_vars

TypeOK ==
    /\ ndebug \in BOOLEAN
    /\ variant \in Reps
    /\ uncaught \in 0 .. MaxUncaught
    /\ trap \in {"none", "assert", "ub", "terminate"}
    /\ BagCardinality(objs) <= MaxObjs
    /\ \A o \in Live : o.live /\ o.rep = variant
    /\ inspected_seen \in BOOLEAN
    /\ reported \in [ chain : BOOLEAN, off : BOOLEAN ]

\* ------------------------------------------------ properties
Failed(o) == ~discriminant(o)

\* the error a failed object holds (the compressed representation stores none:
\* its Error is empty and error() returns Error())
StoredError(o) == IF o.rep = "compressed" THEN Empty ELSE o.val

\* the outcomes of destroying the wrapper o now, with unc exceptions in flight
Destructions(o, unc) ==
    IF o.rep = "void" THEN void_fr_destructor(o, singleton, unc, ndebug)
    ELSE fr_destructor(o, singleton, unc, ndebug)

\* whenever and however the wrapper o is destroyed from now on, it does not throw
DestructorSilent(o) ==
    \A unc \in 0 .. MaxUncaught : \A r \in Destructions(o, unc) : ~r.out.threw

LastOnWrapper(op) == last.op = op /\ last.pre.kind = "fallible"
LastOnRoe(op)     == last.op = op /\ last.pre.kind = "roe"

\* C1: a failed fallible_result that is destroyed uninspected while no exception
\* is in flight throws make_exception( stored error ) from its destructor.
C1_DropFailedThrows ==
    ( /\ LastOnWrapper("destroy")
      /\ Failed(last.pre) /\ ~last.pre.inspected
      /\ last.unc = 0 )
    => ( /\ trap = "none"
         /\ last.threw
         /\ last.exc = make_exception(StoredError(last.pre)) )

\* C2: in every representation, a failed uninspected fallible_result destroyed
\* while another exception is in flight does not throw from its destructor, and
\* the program is not terminated.
C2_NoThrowWhileUnwinding ==
    ( /\ LastOnWrapper("destroy")
      /\ Failed(last.pre) /\ ~last.pre.inspected
      /\ last.unc >= 1 )
    => ( ~last.threw /\ trap # "terminate" )

\* C3: the destructor of a fallible_result throws only if the wrapped
\* result_or_error is, at that moment, uninspected and failed.
C3_ThrowsOnlyUninspectedFailure ==
    ( LastOnWrapper("destroy") /\ last.threw )
    => ( ~last.pre.inspected /\ Failed(last.pre) )

C3_Witness ==
    /\ LastOnWrapper("destroy") /\ trap = "none"
    /\ last.pre.inspected /\ Failed(last.pre) /\ ~last.threw

\* C4: converting a fallible_result to Result returns the success value without
\* throwing if the operation succeeded and throws the translated stored error if
\* it failed; either way the wrapper is inspected afterwards and its destructor
\* throws nothing more.
C4_ConversionToResult ==
    LastOnWrapper("result")
    => ( /\ trap = "none"
         /\ ~Failed(last.pre) => (~last.threw /\ last.retv = last.pre.val)
         /\ Failed(last.pre)
              => (last.threw /\ last.exc = make_exception(StoredError(last.pre)))
         /\ last.post.inspected
         /\ DestructorSilent(last.post) )

\* C5: decaying a not yet inspected fallible_result to result_or_error
\* (as_result_or_error, operator(), the conversion operator) does not throw,
\* leaves the wrapper inspected so that its destructor does not throw, and
\* yields an uninspected result_or_error with the outcome and the payload the
\* wrapper held.
C5_DecayKeepsOutcome ==
    ( /\ last.op \in DecayOps /\ last.pre.kind = "fallible"
      /\ ~last.pre.inspected )
    => ( /\ trap = "none" /\ ~last.threw /\ ~last.ub
         /\ last.post.inspected
         /\ DestructorSilent(last.post)
         /\ last.made.kind = "roe"
         /\ ~last.made.inspected
         /\ discriminant(last.made) = discriminant(last.pre)
         /\ last.made.val = last.pre.val )

\* C6: ignore_failure() throws nothing, sets the inspected flag and changes
\* nothing else, and afterwards the wrapper's destructor does not throw, for a
\* success and for a failure, in every representation.
C6_IgnoreFailure ==
    LastOnWrapper("ignore_failure")
    => ( /\ trap = "none" /\ ~last.threw
         /\ last.post = [ last.pre EXCEPT !.inspected = TRUE ]
         /\ DestructorSilent(last.post) )

C6_Witness ==
    /\ LastOnWrapper("ignore_failure") /\ trap = "none"
    /\ Failed(last.pre) /\ ~last.pre.inspected
    /\ last.post.inspected

\* C7: the explicit bool conversion of a fallible_result returns true exactly
\* when the operation succeeded, throws nothing, and is an inspection: the
\* destructor does not throw afterwards, also when false was returned.
C7_BoolTest ==
    LastOnWrapper("bool")
    => ( /\ trap = "none" /\ ~last.threw
         /\ last.retb = discriminant(last.pre)
         /\ last.post.inspected
         /\ DestructorSilent(last.post) )

C7_Witness ==
    /\ LastOnWrapper("bool") /\ trap = "none"
    /\ Failed(last.pre) /\ ~last.pre.inspected
    /\ ~last.retb

\* C8: propagate() of the fallible_result template (general and compressed
\* representation) on a wrapper in any state, an inspected one included, returns
\* a fresh uninspected wrapper with the same outcome, which throws if it holds a
\* failure and is dropped uninspected; the source is left inspected and its
\* destructor does not throw.
C8_PropagateRearms ==
    ( LastOnWrapper("propagate") /\ last.pre.rep # "void" )
    => ( /\ trap = "none" /\ ~last.ub /\ ~last.threw
         /\ last.made.kind = "fallible"
         /\ ~last.made.inspected
         /\ discriminant(last.made) = discriminant(last.pre)
         /\ Failed(last.made)
              => \A r \in Destructions(last.made, 0) : r.out.threw
         /\ last.post.inspected
         /\ DestructorSilent(last.post) )

\* C9: a result_or_error never throws by itself: its destructor throws nothing
\* in any state (a failure dropped uninspected is tolerated), and only
\* throw_if_error, throw_if_uninspected_error and throw_error raise.
C9_RoeNeverThrowsByItself ==
    /\ LastOnRoe("destroy") => (~last.threw /\ trap = "none")
    /\ (last.pre.kind = "roe" /\ last.threw) => last.op \in ThrowOps

C9_Witness ==
    /\ LastOnRoe("destroy") /\ trap = "none"
    /\ Failed(last.pre) /\ ~last.pre.inspected /\ ~last.threw

\* C10: move construction of a result_or_error (propagate, as_fallible_result)
\* leaves the source inspected and the new object uninspected, with the outcome
\* and the payload of the source; throw_if_uninspected_error on the moved-from
\* source does not throw.
C10_MoveConstruct ==
    ( /\ last.op \in {"propagate", "as_fallible_result"}
      /\ last.pre.kind = "roe" /\ trap = "none" )
    => ( /\ last.post.inspected
         /\ ~last.made.inspected
         /\ discriminant(last.made) = discriminant(last.pre)
         /\ last.made.val = last.pre.val
         /\ \A unc \in 0 .. MaxUncaught :
              \A out \in throw_if_uninspected_error(last.post, unc, ndebug) :
                ~out.threw )

C10_Witness ==
    /\ LastOnRoe("propagate") /\ trap = "none"
    /\ Failed(last.pre) /\ ~last.pre.inspected
    /\ last.post.inspected /\ ~last.made.inspected

\* C11: succeeded() of a result_or_error returns the success discriminant and
\* sets inspected as its only effect; the explicit bool conversion and the
\* comparisons forward to it: == no_err and != an_err return succeeded,
\* == an_err and != no_err return its negation, and each marks the object
\* inspected.
C11_SucceededAndComparisons ==
    ( last.pre.kind = "roe" /\ last.op \in InspectOps )
    => ( /\ trap = "none" /\ ~last.threw /\ ~last.ub
         /\ last.post = [ last.pre EXCEPT !.inspected = TRUE ]
         /\ last.op \in {"succeeded", "operator bool", "== no_err", "!= an_err"}
              => last.retb = discriminant(last.pre)
         /\ last.op \in {"== an_err", "!= no_err"}
              => last.retb = ~discriminant(last.pre) )

C11_Witness ==
    /\ LastOnRoe("== an_err") /\ trap = "none"
    /\ Failed(last.pre) /\ ~last.pre.inspected
    /\ last.retb /\ last.post.inspected

\* C12: throw_if_error() of a result_or_error throws the translated error
\* whenever the object is failed and returns normally only when it succeeded,
\* and the object is inspected afterwards, in every representation and whether
\* or not another exception is in flight.
C12_ThrowIfError ==
    LastOnRoe("throw_if_error")
    => ( /\ trap = "none"
         /\ Failed(last.pre)
              => (last.threw /\ last.exc = make_exception(StoredError(last.pre)))
         /\ ~Failed(last.pre) => ~last.threw
         /\ last.post.inspected )

\* the observable part of an outcome of a member function agrees with what the
\* last call did
SameAsLast(out) ==
    /\ out.o = last.post
    /\ out.threw = last.threw /\ out.exc = last.exc
    /\ out.retb = last.retb /\ out.retv = last.retv
    /\ out.trap = trap /\ out.ub = last.ub

\* C13: throw_if_uninspected_error() changes nothing and throws nothing on an
\* inspected object, also a failed one; on an uninspected object it does what
\* throw_if_error() does; when it returns normally the object is inspected.
C13_ThrowIfUninspectedError ==
    LastOnRoe("throw_if_uninspected_error")
    => ( /\ last.pre.inspected
              => (trap = "none" /\ ~last.threw /\ last.post = last.pre)
         /\ ~last.pre.inspected
              => \E out \in throw_if_error(last.pre, last.unc, ndebug) :
                   SameAsLast(out)
         /\ (trap = "none" /\ ~last.threw) => last.post.inspected )

C13_Witness ==
    /\ LastOnRoe("throw_if_uninspected_error") /\ trap = "none"
    /\ Failed(last.pre) /\ last.pre.inspected
    /\ ~last.threw /\ last.post = last.pre

SuccessSource(a) ==
    CASE variant = "general"    -> a[1]
      [] variant = "compressed" -> a[2] # Empty
      [] variant = "void"       -> FALSE

\* o reports success and, once asked, hands out the value v
HandsOut(o, v) ==
    /\ succeeded(o).retb
    /\ \A out \in roe_access("result", succeeded(o).o, ndebug) :
         out.trap = "none" /\ ~out.ub /\ out.retv = v

\* C15: round trip: a result_or_error constructed from a success value v reports
\* succeeded() = true and result() then returns v, and so does every object
\* obtained from it by moves (propagate, as_fallible_result, propagate of the
\* wrapper) and by decay from a fallible_result constructed from v.
C15_RoundTrip ==
    /\ ( last.op = "construct" /\ trap = "none" /\ SuccessSource(last.arg) )
       => ( last.post.origin = last.arg[2]
            /\ HandsOut([ last.post EXCEPT !.kind = "roe" ], last.arg[2]) )
    /\ ( last.op \in DecayOps \cup {"propagate", "as_fallible_result"}
         /\ trap = "none" /\ last.pre.origin # NoExc )
       => ( last.made.origin = last.pre.origin
            /\ HandsOut([ last.made EXCEPT !.kind = "roe" ], last.pre.origin) )
    /\ ( last.op \in InspectOps \cup {"bool"} /\ trap = "none"
         /\ last.pre.origin # NoExc )
       => ( last.retb = (last.op \notin {"== an_err", "!= no_err"}) )
    /\ ( LastOnRoe("result") /\ last.pre.origin # NoExc /\ last.pre.inspected )
       => ( trap = "none" /\ ~last.ub /\ last.retv = last.pre.origin )

\* the object of the general union-based representation that corresponds to
\* the compressed object o: same outcome, same Result, the one value of the
\* empty Error type
AsGeneral(o) ==
    IF o.rep # "compressed" THEN o
    ELSE [ o EXCEPT !.rep = "general", !.succ = discriminant(o) ]

\* an outcome of the general representation shows what the last call on the
\* compressed object showed: object afterwards (inspected flag included),
\* returned values, whether and what was thrown, whether the program stopped
GeneralShowsLast(out) ==
    /\ out.o = AsGeneral(last.post)
    /\ out.threw = last.threw /\ out.exc = last.exc
    /\ out.retb = last.retb /\ out.retv = last.retv
    /\ out.trap = trap

\* C16: every construct, succeeded(), result(), error(), throw_if_error(),
\* throw_if_uninspected_error(), move and destroy of the compressed
\* representation shows what the same operation shows on the corresponding
\* object of the general representation, and leaves corresponding objects.
C16_CompressedAsGeneral ==
    ( variant = "compressed" /\ last.op # "none" )
    => LET g == AsGeneral(last.pre)
       IN  /\ ( last.op = "construct" /\ last.post.kind = "roe" )
              => AsGeneral(last.post)
                   = general_construct(last.arg[2] # Empty, last.arg[2])
           /\ LastOnRoe("succeeded")
              => GeneralShowsLast(succeeded(g))
           /\ ( last.pre.kind = "roe" /\ last.op \in {"result", "error"} )
              => \E out \in roe_access(last.op, g, ndebug) : GeneralShowsLast(out)
           /\ ( last.pre.kind = "roe"
                /\ last.op \in {"throw_if_error", "throw_if_uninspected_error"} )
              => \E out \in roe_throw(last.op, g, last.unc, ndebug) :
                   GeneralShowsLast(out)
           /\ LastOnRoe("propagate")
              => \E m \in roe_move(g) :
                   m.src = AsGeneral(last.post) /\ m.dst = AsGeneral(last.made)
           /\ LastOnRoe("destroy")
              => \E out \in roe_destructor(g) :
                   out.threw = last.threw /\ out.trap = trap

\* the wrapper of the general template that corresponds to the void wrapper o,
\* with the success payload v
GeneralWrapper(o, v) ==
    IF o.rep # "void" THEN o
    ELSE [ o EXCEPT !.rep = "general", !.moved_from = FALSE,
                    !.val = IF o.succ THEN v ELSE o.val,
                    !.origin = IF o.succ THEN v ELSE NoExc ]

\* an object with its success payload (and the representation) erased
Erased(o) ==
    IF ~o.live THEN o
    ELSE [ o EXCEPT !.rep = "void", !.moved_from = FALSE, !.origin = NoExc,
                    !.val = IF o.succ THEN Empty ELSE o.val ]

\* the sanitizer of a thread on which the live fallible_result<void>
\* instances are instances of the general template instead
GeneralSanitizer(s, seen) ==
    [ live_instance_counter |-> s.live_void_instance_counter,
      at_least_one_inspected |-> seen, live_void_instance_counter |-> 0 ]

\* C17: every construct, bool test, ignore_failure, decay, propagate and
\* destroy of a fallible_result<void, Error> throws in the same situations,
\* reports the same outcome and leaves the same state (success payload erased)
\* as the same operation on the corresponding fallible_result<Result, Error>.
C17_VoidAsGeneralWrapper ==
    ( variant = "void" /\ last.op # "none" )
    => \E v \in Values :
         LET g  == GeneralWrapper(last.pre, v)
             gs == GeneralSanitizer(last.san, last.seen)
         IN  /\ ( last.op = "construct" /\ last.post.kind = "fallible" )
                => LET c == fr_construct(
                              general_construct(last.arg[1],
                                  IF last.arg[1] THEN v ELSE last.arg[2]),
                              gs, ndebug)
                   IN  /\ c.fails <=> (trap = "assert")
                       /\ Erased(c.o) = Erased(last.post)
             /\ LastOnWrapper("bool")
                => LET out == fr_operator_bool(g)
                   IN  /\ trap = "none" /\ out.retb = last.retb
                       /\ Erased(out.o) = Erased(last.post)
             /\ LastOnWrapper("ignore_failure")
                => ( trap = "none"
                     /\ Erased(ignore_failure(g)) = Erased(last.post) )
             /\ ( last.pre.kind = "fallible" /\ last.op \in DecayOps )
                => \E r \in decay(last.op, g, ndebug) :
                     /\ r.trap = trap
                     /\ trap = "none"
                          => ( Erased(r.src) = Erased(last.post)
                               /\ Erased(r.dst) = Erased(last.made) )
             /\ LastOnWrapper("propagate")
                => \E p \in fr_propagate(g, gs, ndebug) :
                     /\ p.r.trap = trap
                     /\ trap = "none"
                          => ( Erased(p.r.src) = Erased(last.post)
                               /\ Erased(p.r.dst) = Erased(last.made) )
             /\ LastOnWrapper("destroy")
                => \E r \in fr_destructor(g, gs, last.unc, ndebug) :
                     /\ r.out.threw = last.threw /\ r.out.exc = last.exc
                     /\ r.out.trap = (IF trap = "terminate" THEN "none" ELSE trap)

\* the last call ran to its end (by a return or an exception) and turned the
\* inspected flag of its object from false to true
SetsInspected ==
    /\ trap = "none"
    /\ last.pre.live /\ last.post.live
    /\ ~last.pre.inspected /\ last.post.inspected

\* the operations that forward to succeeded(), and the wrapper's explicit ignore
ExplicitInspections == InspectOps \cup {"bool", "ignore_failure"}

\* the other operations that set the flag: the throwing checks and
\* assume_succeeded (they call succeeded()), the wrapper's conversion to
\* Result and its decay, being moved from, and, in a debug build, the
\* BOOST_ASSERT( !succeeded() ) of throw_error and make_exception_ptr
ImplicitInspections ==
    {"throw_if_error", "throw_if_uninspected_error", "assume_succeeded",
     "propagate", "as_fallible_result"}
    \cup DecayOps
    \cup (IF last.pre.kind = "fallible" THEN {"result"} ELSE {})
    \cup (IF ndebug THEN {} ELSE {"throw_error", "make_exception_ptr"})

\* C18 as stated: inspected is false right after construction and becomes true
\* only through an explicit inspection (bool conversion, succeeded() and what
\* forwards to it, the wrapper's ignore_failure); no other operation sets it.
C18_OnlyExplicitInspection ==
    /\ (last.op = "construct" /\ last.post.live) => ~last.post.inspected
    /\ SetsInspected => last.op \in ExplicitInspections

\* C18: inspected is false right after construction and in every object a
\* call returns; it becomes true only through an explicit inspection, a
\* throwing check or assume_succeeded, the wrapper's conversion or decay, being
\* moved from, or (debug build) the assertion of throw_error /
\* make_exception_ptr; inspected(), result(), error() never set it, and no
\* operation clears it.
C18_InspectedFrame ==
    /\ (last.op = "construct" /\ last.post.live) => ~last.post.inspected
    /\ (last.made.live /\ ~last.ub) => ~last.made.inspected
    /\ SetsInspected => last.op \in ExplicitInspections \cup ImplicitInspections
    /\ (last.pre.live /\ last.post.live /\ last.pre.inspected)
         => last.post.inspected

C18_Witness ==
    /\ LastOnRoe("propagate") /\ trap = "none"
    /\ SetsInspected /\ ~last.made.inspected

SanitizerAssertionFailed ==
    /\ ~ndebug /\ LastOnWrapper("destroy")
    /\ IF last.pre.rep = "void"
       THEN last.san.live_void_instance_counter
              # 1 + (IF last.pre.moved_from THEN 1 ELSE 0)
       ELSE remove_instance_aux(last.san, last.pre.inspected, last.unc).fails

\* the last operation was applied to the only fallible_result alive
SingleWrapper ==
    /\ last.pre.kind = "fallible"
    /\ last.san.live_instance_counter + last.san.live_void_instance_counter = 1

\* C21: debug build, a single fallible_result: none of the documented usages
\* trips an assertion of the sanitizer: dropping it unreferenced (it throws on
\* failure, is silent on success), converting it to Result, decaying it to a
\* result_or_error, calling ignore_failure(), each followed by its destruction.
C21_DocumentedUsageNoAssertion ==
    ( ~ndebug /\ SingleWrapper )
    => ( /\ last.op = "destroy" => ~SanitizerAssertionFailed
         /\ ( last.op \in {"result", "ignore_failure"} \cup DecayOps
              /\ ~last.pre.inspected )
            => trap # "assert" )

\* the number of live fallible_result<void> instances that were not moved from
\* by propagate()
VoidInstances ==
    BagCardinality([ o \in { w \in Wrappers : w.rep = "void" /\ ~w.moved_from }
                     |-> CopiesIn(o, objs) ])

\* the last call constructed a fallible_result from a source or from a
\* result_or_error (as_fallible_result)
LastConstructsWrapper ==
    \/ last.op = "construct" /\ last.post.kind = "fallible"
    \/ last.op = "as_fallible_result"

\* C22: debug build, fallible_result<void>: constructing an instance while
\* another one is alive trips "More than one fallible_result<void> instance
\* detected", constructing one while none is alive does not; while the program
\* runs at most one instance that was not moved from is alive; the destructor
\* of an instance that is alone and was not moved from does not trip it (its
\* only other assertion is the one of throw_if_error on an exception in flight).
C22_OneVoidInstance ==
    ( ~ndebug /\ variant = "void" )
    => ( /\ LastConstructsWrapper => ((trap = "assert") <=> (WrapperCount > 1))
         /\ trap = "none" => VoidInstances <= 1
         /\ ( LastOnWrapper("destroy") /\ ~last.pre.moved_from /\ WrapperCount = 0 )
            => ( /\ ~SanitizerAssertionFailed
                 /\ (trap = "assert") <=> (~last.pre.inspected /\ last.unc > 0) ) )

C22_Witness ==
    /\ ~ndebug /\ variant = "void"
    /\ last.op = "construct" /\ last.post.kind = "fallible"
    /\ WrapperCount = 2 /\ trap = "assert"

\* C23: a failed, uninspected fallible_result destroyed while exceptions are in
\* flight: when it was created and is dropped by code that runs during the
\* unwinding (a destruction at the end of its full expression, the count of
\* uncaught exceptions being what it was at its construction) it still throws
\* its failure; when its destruction is itself part of the unwinding the throw
\* is suppressed and the program is not terminated.
C23_NestedUnwinding ==
    ( /\ LastOnWrapper("destroy")
      /\ Failed(last.pre) /\ ~last.pre.inspected
      /\ last.unc >= 1 )
    => IF last.unwind
       THEN ~last.threw /\ trap # "terminate"
       ELSE /\ trap = "none" /\ last.threw
            /\ last.exc = make_exception(StoredError(last.pre))

\* C27: whenever propagate() of the fallible_result template runs, on a
\* wrapper in any state (inspected before, or propagated before), the
\* assumption !inspected_ at the entry of as_result_or_error(), which the
\* private move constructor calls on the source, holds: a debug build does not
\* stop on it and an NDEBUG build has no undefined behaviour.
C27_PropagateAssumption ==
    ( LastOnWrapper("propagate") /\ last.pre.rep # "void" )
    => ( /\ ~AssumeBroken(~last.pre.inspected)
         /\ trap \notin {"assert", "ub"}
         /\ ~last.ub )

MaxNested == 256   \* fallible_result temporaries alive at the same time

InitNested ==
    /\ ndebug = FALSE
    /\ variant = "general"
    /\ objs = EmptyBag
    /\ uncaught = 0
    /\ singleton = NoSanitizer
    /\ trap = "none"
    /\ last = NoLast
    /\ inspected_seen = FALSE
    /\ reported = NotReported
    /\ tls = NoTls
    /\ en = NoErrno

\* a producer returns a succeeded fallible_result while the ones returned
\* before are still alive
FrConstructNested ==
    /\ Idle
    /\ BagCardinality(objs) < MaxNested
    /\ LET a == <<TRUE, 1>>
           c == fr_construct(NewRoe(variant, a), singleton, ndebug)
       IN  CompleteArg("construct", a, NoObj, FALSE,
                       IF c.fails THEN Trapped(NoObj, "assert") ELSE Normal(NoObj),
                       c.o, NoObj, c.s)

NextNested ==
    \/ FrConstructNested
    \/ FrDestroy
    \/ Return

SpecNested == InitNested /\ [][NextNested]_vars

\* C30: debug build, general template: live_instance_counter is the number of
\* live fallible_result objects after every construction, propagate() and
\* destruction (a throwing one included), so "Mismatched add/remove instance."
\* never fires and the counter is 0 when no wrapper is alive.
C30_CounterCountsLive ==
    ( ~ndebug /\ variant # "void" )
    => ( /\ singleton.live_instance_counter = WrapperCount
         /\ LastOnWrapper("destroy") => last.san.live_instance_counter > 0
         /\ WrapperCount = 0 => singleton.live_instance_counter = 0 )

\* C28: the outcome of a result_or_error is fixed at construction, in all
\* three representations: no operation on a live object changes what
\* succeeded() returns, neither an assignment through the reference result()
\* handed out nor being moved from.
C28_OutcomeFixed ==
    ( last.pre.live /\ last.post.live )
    => discriminant(last.post) = discriminant(last.pre)

\* ---- the holders of one failure: a result is constructed from an error
\* while no holder of an earlier failure is alive, and is followed through
\* propagate(), decay, as_fallible_result() and the destructors
RoeConstructFailure ==
    /\ Idle /\ Room
    /\ Holders(objs) = {} /\ objs = EmptyBag
    /\ \E a \in { x \in ConstructArgs(variant) : ~discriminant(NewRoe(variant, x)) } :
         CompleteArg("construct", a, NoObj, FALSE, Normal(NoObj),
                     [ NewRoe(variant, a) EXCEPT !.role = "head" ], NoObj, singleton)

FrConstructFailure ==
    /\ Idle /\ Room
    /\ Holders(objs) = {} /\ objs = EmptyBag
    /\ \E a \in { x \in ConstructArgs(variant) : ~discriminant(NewRoe(variant, x)) } :
         LET c == fr_construct(NewRoe(variant, a), singleton, ndebug)
         IN  CompleteArg("construct", a, NoObj, FALSE,
                         IF c.fails THEN Trapped(NoObj, "assert") ELSE Normal(NoObj),
                         [ c.o EXCEPT !.role = "head" ], NoObj, c.s)

NextChain ==
    \/ RoeConstructFailure
    \/ FrConstructFailure
    \/ FrDestroy
    \/ FrDecay
    \/ FrBool
    \/ FrIgnoreFailure
    \/ FrPropagate
    \/ RoeInspect
    \/ RoePropagate
    \/ RoeAsFallibleResult
    \/ RoeDestroy
    \/ ThirdPartyThrow
    \/ Catch
    \/ Return

SpecChain == Init /\ [][NextChain]_vars

\* the heads alive: holders of the followed failure that were not moved from
Heads == BagCardinality([ o \in { h \in Live : h.role = "head" }
                          |-> CopiesIn(o, objs) ])

\* the destructor of a holder of the followed failure threw in the last call
HolderThrew == last.op = "destroy" /\ last.threw /\ last.pre.role # "none"

\* C26 as stated: over all the objects that propagate(), decay,
\* as_fallible_result() and moves make from the holders of one failure, in any
\* order and from any holder, the destructors together throw at most once.
C26_ReportedOnce ==
    HolderThrew => ~(last.reported.chain \/ last.reported.off)

\* the part of it that the code keeps: along a chain in which every object is
\* moved from at most once (each
\* propagate(), decay or as_fallible_result() is applied to the object the
\* previous one returned) the destructors together throw at most once: an
\* object that was moved from never throws from its destructor, at most one
\* object of the chain that was not moved from is alive, and it reports the
\* failure at most once.
C26_ChainReportedOnce ==
    /\ ( last.op = "destroy" /\ last.pre.role = "spent" ) => ~last.threw
    /\ ( HolderThrew /\ last.pre.role = "head" ) => ~last.reported.chain
    /\ Heads <= 1

C26_Witness ==
    /\ LastOnWrapper("destroy") /\ trap = "none"
    /\ last.pre.role = "head" /\ last.threw
    /\ \E o \in Live : o.role = "spent"

\* ------------------------------------------------ two threads
\* the sanitizer cell of each thread (debug builds): a thread_local variable
\* (psi: fallible_result_sanitizer::singleton; boost: thread_singleton, first
\* implementation) or a heap cell found through a pthread key
\* (thread_singleton, second implementation)
Threads == {"T1", "T2"}

TlsImpls == {"thread_local", "pthread"}

\* storage: one cell per thread (its thread_local variable, or the wrapper it
\* allocated) and the storage of the static tls_key_, whose address instance()
\* puts into the slot as a non-null dummy
Cells == Threads \cup {"tls_key_"}

\* a call of the sanitizer: by a constructor (nothrow: its noexcept
\* specification, std::is_nothrow_constructible of the instantiation) or by a
\* destructor (insp: inspected_, unc: std::uncaught_exceptions())
NoCall == [ kind |-> "none", insp |-> FALSE, unc |-> 0, nothrow |-> FALSE ]

\* what the bytes of tls_key_ read as when taken for a sanitizer
KeyBytes ==
    { [ NoSanitizer EXCEPT !.live_instance_counter = n ] : n \in {0, 1} }

InitThreads ==
    /\ ndebug = FALSE
    /\ variant = "general"
    /\ objs = EmptyBag
    /\ uncaught = 0
    /\ singleton = NoSanitizer
    /\ trap = "none"
    /\ last = NoLast
    /\ inspected_seen = FALSE
    /\ reported = NotReported
    /\ en = NoErrno
    /\ tls \in { [ impl   |-> i,
                   key    |-> FALSE,
                   slot   |-> [ t \in Threads |-> "nullptr" ],
                   cell   |-> [ c \in Cells |-> IF c = "tls_key_" THEN k
                                                 ELSE NoSanitizer ],
                   pc     |-> [ t \in Threads |-> "idle" ],
                   call   |-> [ t \in Threads |-> NoCall ],
                   p_t    |-> [ t \in Threads |-> "nullptr" ],
                   live   |-> [ t \in Threads |-> [ b \in BOOLEAN |-> 0 ] ],
                   own    |-> [ t \in Threads |-> NoSanitizer ],
                   got    |-> [ t \in Threads |-> {} ],
                   fresh  |-> [ t \in Threads |-> TRUE ],
                   failed |-> [ t \in Threads |-> FALSE ],
                   own_failed |-> [ t \in Threads |-> FALSE ],
                   deleted |-> [ t \in Threads |-> "nullptr" ],
                   terminated |-> FALSE ] :
                 i \in TlsImpls, k \in KeyBytes }

\* assert() failed on some thread or std::terminate was called: the process
\* was aborted
Aborted == tls.terminated \/ \E t \in Threads : tls.failed[t]

LiveOn(t) == tls.live[t][TRUE] + tls.live[t][FALSE]

Single == <<ndebug, variant, objs, uncaught, singleton, trap, last,
            inspected_seen, reported, en>>

\* fallible_result( T && ... ): add_instance() is entered
ThConstruct(t) ==
    /\ ~Aborted /\ tls.pc[t] = "idle"
    /\ LiveOn(t) < MaxObjs
    /\ \E nothrow \in BOOLEAN :
         tls' = [ tls EXCEPT !.pc[t] = "instance",
                             !.call[t] = [ NoCall EXCEPT !.kind = "add",
                                                         !.nothrow = nothrow ] ]
    /\ UNCHANGED Single

\* an inspecting member of a live fallible_result: inspected_ = true
ThInspect(t) ==
    /\ ~Aborted /\ tls.pc[t] = "idle"
    /\ tls.live[t][FALSE] > 0
    /\ tls' = [ tls EXCEPT !.live[t] = [ @ EXCEPT ![FALSE] = @ - 1,
                                                  ![TRUE]  = @ + 1 ] ]
    /\ UNCHANGED Single

\* ~fallible_result(): remove_instance( inspected_ ) is entered
ThDestroy(t) ==
    /\ ~Aborted /\ tls.pc[t] = "idle"
    /\ \E b \in BOOLEAN, unc \in 0 .. 1 :
         /\ tls.live[t][b] > 0
         /\ tls' = [ tls EXCEPT !.pc[t] = "instance",
                                !.live[t][b] = @ - 1,
                                !.call[t] = [ NoCall EXCEPT !.kind = "remove",
                                                            !.insp = b,
                                                            !.unc = unc ] ]
    /\ UNCHANGED Single

\* static BOOST_THREAD_LOCAL_POD T instance_; return instance_;
TlsThreadLocal(t) ==
    /\ ~Aborted /\ tls.pc[t] = "instance"
    /\ tls.impl = "thread_local"
    /\ tls' = [ tls EXCEPT !.pc[t] = "use", !.p_t[t] = t ]
    /\ UNCHANGED Single

\* make_and_throw_exception<std::bad_alloc>() or a failed new: the exception
\* leaves instance() and the constructor or destructor that called it, or
\* std::terminate is called (a noexcept constructor, a destructor that runs
\* during unwinding)
Thrown_bad_alloc(t) ==
    IF tls.call[t].nothrow \/ tls.call[t].unc > 0
    THEN [ tls EXCEPT !.terminated = TRUE ]
    ELSE [ tls EXCEPT !.pc[t] = "idle", !.call[t] = NoCall,
                      !.p_t[t] = "nullptr" ]

\* static key_creator_t const key_creator (a thread-safe local static: the
\* first thread to come creates the key, or pthread_key_create fails and the
\* constructor throws); then p_t = pthread_getspecific( tls_key_ )
TlsGetSpecific(t) ==
    /\ ~Aborted /\ tls.pc[t] = "instance"
    /\ tls.impl = "pthread"
    /\ \/ /\ ~tls.key
          /\ tls' = Thrown_bad_alloc(t)
       \/ tls' = [ tls EXCEPT !.key = TRUE,
                              !.p_t[t] = tls.slot[t],
                              !.pc[t] = IF tls.slot[t] = "nullptr"
                                        THEN "set_dummy" ELSE "use" ]
    /\ UNCHANGED Single

\* pthread_setspecific( tls_key_, &tls_key_ ): the slot is allocated, or the
\* call fails and bad_alloc is thrown
TlsSetDummy(t) ==
    /\ ~Aborted /\ tls.pc[t] = "set_dummy"
    /\ \/ tls' = [ tls EXCEPT !.slot[t] = "tls_key_", !.pc[t] = "new" ]
       \/ tls' = Thrown_bad_alloc(t)
    /\ UNCHANGED Single

\* p_t = new wrapper(): a value-initialised cell, or bad_alloc
TlsNew(t) ==
    /\ ~Aborted /\ tls.pc[t] = "new"
    /\ \/ tls' = [ tls EXCEPT !.cell[t] = NoSanitizer, !.p_t[t] = t,
                              !.pc[t] = "set" ]
       \/ tls' = Thrown_bad_alloc(t)
    /\ UNCHANGED Single

\* pthread_setspecific( tls_key_, p_t )
TlsSetSpecific(t) ==
    /\ ~Aborted /\ tls.pc[t] = "set"
    /\ tls' = [ tls EXCEPT !.slot[t] = tls.p_t[t], !.pc[t] = "use" ]
    /\ UNCHANGED Single

\* add_instance() / remove_instance( inspected ) on a sanitizer
sanitizer_call(call, s) ==
    IF call.kind = "add" THEN [ s |-> add_instance_aux(s), fails |-> FALSE ]
    ELSE remove_instance_aux(s, call.insp, call.unc)

\* return p_t->instance; singleton().add_instance_aux() or
\* singleton().remove_instance_aux( inspected ) on the cell returned. own: the
\* sanitizer as the calls of this thread alone make it, from the cell instance()
\* returned first
ThUse(t) ==
    /\ ~Aborted /\ tls.pc[t] = "use"
    /\ LET c    == tls.p_t[t]
           r    == sanitizer_call(tls.call[t], tls.cell[c])
           mine == IF tls.got[t] = {} THEN tls.cell[c] ELSE tls.own[t]
           o    == sanitizer_call(tls.call[t], mine)
       IN  tls' = [ tls EXCEPT
                      !.cell[c] = r.s,
                      !.failed[t] = r.fails,
                      !.own[t] = o.s,
                      !.own_failed[t] = o.fails,
                      !.got[t] = @ \cup {c},
                      !.fresh[t] = IF tls.got[t] = {}
                                   THEN tls.cell[c] = NoSanitizer ELSE @,
                      !.live[t][FALSE] = IF tls.call[t].kind = "add"
                                         THEN @ + 1 ELSE @,
                      !.pc[t] = "idle", !.call[t] = NoCall,
                      !.p_t[t] = "nullptr" ]
    /\ UNCHANGED Single

\* the thread ends (none of its fallible_results is alive): the destructor
\* registered with pthread_key_create runs on the non-null value of the slot,
\* delete static_cast<wrapper *>( p_object ); pthread_setspecific( tls_key_,
\* nullptr ). deleted: the pointer given to delete, which is undefined for one
\* that new did not return (the execution is not followed further). A thread
\* started afterwards is a new thread
ThExit(t) ==
    /\ ~Aborted /\ tls.pc[t] = "idle"
    /\ LiveOn(t) = 0
    /\ tls.impl = "pthread" /\ tls.slot[t] # "nullptr"
    /\ tls' = [ tls EXCEPT !.deleted[t] = tls.slot[t],
                           !.slot[t] = "nullptr",
                           !.terminated = (tls.slot[t] = "tls_key_"),
                           !.own[t] = NoSanitizer,
                           !.got[t] = {},
                           !.fresh[t] = TRUE,
                           !.own_failed[t] = FALSE ]
    /\ UNCHANGED Single

NextThreads ==
    \E t \in Threads :
        \/ ThConstruct(t)
        \/ ThInspect(t)
        \/ ThDestroy(t)
        \/ TlsThreadLocal(t)
        \/ TlsGetSpecific(t)
        \/ TlsSetDummy(t)
        \/ TlsNew(t)
        \/ TlsSetSpecific(t)
        \/ ThUse(t)
        \/ ThExit(t)

SpecThreads == InitThreads /\ [][NextThreads]_vars

\* the cell the thread's calls of instance() returned holds what the thread's
\* own calls made of it
OwnCell(t) == \A c \in tls.got[t] : tls.cell[c] = tls.own[t]

\* C24: the sanitizer bookkeeping is per thread: under any interleaving of the
\* constructions, inspections and destructions of two threads, the counters and
\* the flag a thread's sanitizer holds are what the thread's own operations
\* made them, and an assertion fails on a thread exactly when it fails for the
\* thread's own operations alone.
C24_PerThreadBookkeeping ==
    \A t \in Threads :
        /\ tls.pc[t] = "idle" => OwnCell(t)
        /\ tls.failed[t] = tls.own_failed[t]

\* C25: for a thread, instance() returns the same cell on every call, the cell
\* is value-initialised when the thread gets it first, and no two threads get
\* the same cell.
C25_InstancePerThread ==
    /\ \A t \in Threads : Cardinality(tls.got[t]) <= 1 /\ tls.fresh[t]
    /\ \A t, u \in Threads : t # u => tls.got[t] \cap tls.got[u] = {}

\* C31: after propagate() on a fallible_result<void> (debug build) the
\* live-void-instance assertions of the move constructor and of the destructors
\* hold whichever of the moved-from source and the returned copy is destroyed
\* first, and live_void_instance_counter is back to 0 once both are destroyed.
C31_VoidPropagateEitherOrder ==
    ( ~ndebug /\ variant = "void" )
    => ( /\ ( LastOnWrapper("propagate") /\ ~last.pre.moved_from
              /\ last.made.live )
            => last.san.live_void_instance_counter = 1
         /\ ( /\ LastOnWrapper("destroy")
              /\ \/ last.pre.moved_from
                 \/ \E w \in Wrappers : w.moved_from )
            => ( /\ last.san.live_void_instance_counter
                      = 1 + (IF last.pre.moved_from THEN 1 ELSE 0)
                 /\ ( WrapperCount = 0 /\ trap = "none" )
                    => singleton.live_void_instance_counter = 0 ) )

\* result_or_error::propagate() or as_fallible_result() returned
LastRearms ==
    /\ last.op \in {"propagate", "as_fallible_result"}
    /\ last.pre.kind = "roe"
    /\ trap = "none"

\* the returned object holds the outcome and payload of the source and is
\* uninspected; the source is left inspected
Rearmed ==
    /\ last.made.live /\ ~last.made.inspected
    /\ discriminant(last.made) = discriminant(last.pre)
    /\ last.made.val = last.pre.val
    /\ last.post.inspected

\* a failed uninspected fallible_result is dropped, no exception being in
\* flight, while the inspected failed result_or_error it was made from is alive
RearmedDropped ==
    /\ LastOnWrapper("destroy")
    /\ Failed(last.pre) /\ ~last.pre.inspected
    /\ last.unc = 0
    /\ \E r \in Roes : r.inspected /\ Failed(r)

\* C32: result_or_error::as_fallible_result() and propagate() re-arm the check:
\* the returned object holds the same outcome and payload as the source and is
\* uninspected even if the source had been inspected, the source is left
\* inspected, and an inspected failed result_or_error turned back into a
\* fallible_result and dropped throws its error.
C32_Rearm ==
    /\ LastRearms => Rearmed
    /\ RearmedDropped => ( /\ trap = "none"
                           /\ last.threw
                           /\ last.exc = make_exception(StoredError(last.pre)) )

\* the operations whose assertion or assume expression calls succeeded()
AssertingOps == {"throw_error", "make_exception_ptr", "assume_succeeded"}

\* the outcomes of such an operation on o in a build with (nd) or without NDEBUG
asserting_op(op, o, unc, nd) ==
    CASE op = "throw_error"        -> throw_error(o, unc, nd)
      [] op = "make_exception_ptr" -> make_exception_ptr(o, unc, nd)
      [] op = "assume_succeeded"   -> assume_succeeded(o, nd)

\* what a caller can observe of outcomes: the inspected flag left behind and
\* whether the operation threw
Observable(outs) ==
    { [ inspected |-> x.o.inspected, threw |-> x.threw ] : x \in outs }

\* C33: debug and release builds agree on observable behaviour where no
\* assertion is tripped: for throw_error, make_exception_ptr and
\* assume_succeeded applied to the same object in the same situation, when the
\* debug build trips no assertion the inspected flag afterwards and whether the
\* operation throws are the same with the assertion and assume expressions
\* compiled out as with them evaluated.
C33_BuildsAgree ==
    ( LastOnRoe(last.op) /\ last.op \in AssertingOps )
    => LET debug   == asserting_op(last.op, last.pre, last.unc, FALSE)
           release == asserting_op(last.op, last.pre, last.unc, TRUE)
       IN  ( \A x \in debug : x.trap = "none" )
           => Observable(release) = Observable(debug)

\* C34: in the compressed representation the outcome is the truthiness of the
\* stored Result: succeeded() returns static_cast<bool>( result_ ) as it is at
\* the call, an object constructed from a Result that converts to false is a
\* failure, error() returns a default-constructed Error, and a fallible_result
\* holding such a value throws Error{} when it is dropped uninspected while no
\* exception is in flight.
C34_CompressedTruthiness ==
    variant = "compressed"
    => ( /\ LastOnRoe("succeeded") => last.retb = (last.pre.val # Empty)
         /\ ( last.op = "construct" /\ last.post.val = Empty )
            => Failed(last.post)
         /\ ( LastOnRoe("error") /\ trap = "none" ) => last.retv = Empty
         /\ ( /\ LastOnWrapper("destroy")
              /\ last.pre.val = Empty /\ ~last.pre.inspected
              /\ last.unc = 0 )
            => ( /\ trap = "none"
                 /\ last.threw
                 /\ last.exc = make_exception(Empty) ) )

\* ------------------------------------------------ the propagation macros
PropagateMacros == {"PROPAGATE_FAILURE", "SAVE_RESULT_OR_PROPAGATE_FAILURE"}

\* { auto const result( expression ); if ( !result ) result.error(); } and
\* auto result( expression ); if ( !result ) result.error();
\* on the result_or_error that expression yields: !result is operator bool,
\* result.error() is evaluated and its value discarded; the expansion holds no
\* return and no throw, so the statement after the macro is reached (retb)
\* unless an assertion stopped the program. The outcomes carry the object named
\* result as the macro leaves it.
propagate_failure(roe, nd) ==
    LET t == operator_bool(roe)
    IN  IF t.retb THEN { ReturnsB(t.o, TRUE) }
        ELSE { IF e.trap # "none" THEN e ELSE ReturnsB(e.o, TRUE) :
               e \in roe_access("error", t.o, nd) }

\* a function body reaches one of the macros; PROPAGATE_FAILURE closes the
\* block it opened (result is destroyed), SAVE_RESULT_OR_PROPAGATE_FAILURE
\* leaves result alive in the enclosing block
RoePropagateFailure ==
    /\ Idle /\ Room
    /\ \E mac \in PropagateMacros : \E a \in ConstructArgs(variant) :
         \E out \in propagate_failure(NewRoe(variant, a), ndebug) :
              CompleteArg(mac, a, NoObj, FALSE, out,
                          IF mac = "PROPAGATE_FAILURE" THEN NoObj ELSE out.o,
                          NoObj, singleton)

NextMacros ==
    \/ RoePropagateFailure
    \/ RoeInspect
    \/ RoeAccess
    \/ RoeDestroy
    \/ Return

SpecMacros == Init /\ [][NextMacros]_vars

\* the expression of the last macro evaluated to a failed result
MacroOnFailure ==
    /\ last.op \in PropagateMacros
    /\ Failed(NewRoe(variant, last.arg))

\* C35: PSI_ERR_PROPAGATE_FAILURE and PSI_ERR_SAVE_RESULT_OR_PROPAGATE_FAILURE
\* propagate a failure: when expression evaluates to a failed result, control
\* leaves the enclosing function (the statements after the macro are not
\* executed); when it succeeded, execution continues after the macro.
C35_MacroPropagates ==
    ( last.op \in PropagateMacros /\ trap = "none" )
    => ( last.retb <=> ~MacroOnFailure )

\* ------------------------------------------------ last_errno
MaxErrno == 2   \* errno values other than no_error

no_error == Empty
Errnos == no_error .. MaxErrno

\* std::strerror: the message of an error code
strerror(code) == <<"strerror", code>>

NoErrnoCall == [ op |-> "none", born |-> no_error, ret |-> <<>> ]

\* stateful: last_errno saves errno at its construction (psi errno.hpp and the
\* later boost one); otherwise it is an empty class that reads errno when asked
\* and, in a debug build, counts its instances (the first boost errno.hpp).
\* An object is its member value (none when stateless) and, as bookkeeping,
\* born: errno at its construction
InitErrno ==
    /\ ndebug \in BOOLEAN
    /\ variant = "general"
    /\ objs = EmptyBag
    /\ uncaught = 0
    /\ singleton = NoSanitizer
    /\ trap = "none"
    /\ last = NoLast
    /\ inspected_seen = FALSE
    /\ reported = NotReported
    /\ tls = NoTls
    /\ en \in { [ stateful |-> b, errno |-> no_error, objs |-> <<>>,
                  instance_counter |-> 0, last |-> NoErrnoCall ] :
                b \in BOOLEAN }

NoErrnoChange == <<ndebug, variant, objs, uncaught, singleton, last,
                   inspected_seen, reported, tls>>

\* last_errno::set( value ) / clear(), or a failing call of the C library
ErrnoSet ==
    /\ trap = "none"
    /\ \E v \in Errnos :
         en' = [ en EXCEPT !.errno = v,
                           !.last = [ NoErrnoCall EXCEPT !.op = "set" ] ]
    /\ UNCHANGED <<trap, NoErrnoChange>>

\* last_errno(): value = last_errno::get(), or (stateless, debug build)
\* BOOST_ASSERT_MSG( instance_counter++ == 0 )
ErrnoConstruct ==
    /\ trap = "none"
    /\ Len(en.objs) < MaxObjs
    /\ en' = [ en EXCEPT
                 !.objs = Append(@, [ value |-> IF en.stateful THEN en.errno
                                                ELSE NoExc,
                                      born  |-> en.errno ]),
                 !.instance_counter = IF en.stateful \/ ndebug THEN @
                                      ELSE Uint8(@ + 1),
                 !.last = [ NoErrnoCall EXCEPT !.op = "construct",
                                               !.born = en.errno ] ]
    /\ trap' = IF ~en.stateful /\ AssertFails(en.instance_counter = 0, ndebug)
               THEN "assert" ELSE "none"
    /\ UNCHANGED NoErrnoChange

\* ~last_errno(): (stateless, debug build)
\* BOOST_ASSERT_MSG( instance_counter-- == 1 )
ErrnoDestroy ==
    /\ trap = "none"
    /\ \E i \in 1 .. Len(en.objs) :
         en' = [ en EXCEPT
                   !.objs = SubSeq(@, 1, i - 1) \o SubSeq(@, i + 1, Len(@)),
                   !.instance_counter = IF en.stateful \/ ndebug THEN @
                                        ELSE Uint8(@ - 1),
                   !.last = [ NoErrnoCall EXCEPT !.op = "destroy",
                                                 !.born = en.objs[i].born ] ]
    /\ trap' = IF ~en.stateful /\ AssertFails(en.instance_counter = 1, ndebug)
               THEN "assert" ELSE "none"
    /\ UNCHANGED NoErrnoChange

\* operator value_type(): return value, or return get()
ErrnoValue ==
    /\ trap = "none"
    /\ \E i \in 1 .. Len(en.objs) :
         en' = [ en EXCEPT
                   !.last = [ op |-> "value", born |-> en.objs[i].born,
                              ret |-> IF en.stateful THEN en.objs[i].value
                                      ELSE en.errno ] ]
    /\ UNCHANGED <<trap, NoErrnoChange>>

\* make_exception( last_errno error ): std::runtime_error( std::strerror( code ) )
\* with code error.value, or last_errno::get(); BOOST_ASSERT_MSG( code != no_error )
ErrnoMakeException ==
    /\ trap = "none"
    /\ \E i \in 1 .. Len(en.objs) :
         LET code == IF en.stateful THEN en.objs[i].value ELSE en.errno
         IN  /\ en' = [ en EXCEPT
                          !.last = [ op |-> "make_exception",
                                     born |-> en.objs[i].born,
                                     ret |-> strerror(code) ] ]
             /\ trap' = IF AssertFails(code # no_error, ndebug)
                        THEN "assert" ELSE "none"
    /\ UNCHANGED NoErrnoChange

NextErrno ==
    \/ ErrnoSet
    \/ ErrnoConstruct
    \/ ErrnoDestroy
    \/ ErrnoValue
    \/ ErrnoMakeException

SpecErrno == InitErrno /\ [][NextErrno]_vars

\* C36: a last_errno object holds the errno value current at its construction:
\* later set()/clear() calls and errno changes do not change the value it
\* reports, the exception built by make_exception( last_errno ) describes that
\* saved value, and several last_errno objects coexist, each reporting its own
\* error.
C36_HoldsErrnoOfConstruction ==
    /\ ( en.last.op = "value" ) => en.last.ret = en.last.born
    /\ ( en.last.op = "make_exception" /\ en.last.born # no_error )
       => ( trap = "none" /\ en.last.ret = strerror(en.last.born) )
    /\ ( en.last.op = "construct" ) => trap = "none"

\* C37: pthread implementation of thread_singleton<T>::instance(): when
\* creating the thread's cell fails (pthread_setspecific fails or new throws)
\* the slot is left so that a later instance() of the thread creates the cell
\* afresh or fails again: between calls the slot is empty or holds the cell the
\* thread allocated, instance() never returns a reference to something that is
\* not a T cell, and the thread-exit destructor never deletes a pointer that
\* was not allocated as a cell.
C37_FailureLeavesSlotUsable ==
    tls.impl = "pthread"
    => \A t \in Threads :
         /\ tls.pc[t] = "idle" => tls.slot[t] \in {"nullptr", t}
         /\ "tls_key_" \notin tls.got[t]
         /\ tls.deleted[t] # "tls_key_"

====
